---- MODULE Spec2Model ----
(***************************************************************************)
(* State-machine model of the e-commerce REST backend (src/routes).        *)
(*                                                                         *)
(* The database tables are the state: user, category, product, cartItem,   *)
(* wishlistItem, order, orderItem.  Every table is a set of rows.  A       *)
(* handler that awaits more than one database call is split at its awaits: *)
(* each step is one database call together with the synchronous code that  *)
(* follows it, so that other requests can run between two steps.  req      *)
(* holds the handlers in flight with their local variables, res the last   *)
(* response sent.                                                          *)
(*                                                                         *)
(* prisma.$transaction: the writes of the callback are collected in the    *)
(* request (txOrder, txItems) and reach the tables in one step at commit;  *)
(* a failing write discards them.  { decrement: n } is applied by the      *)
(* database to the row's value at commit.  deleteMany is the last          *)
(* statement of the callback and is taken together with the commit.        *)
(*                                                                         *)
(* Prices are whole numbers of the currency's smallest unit.               *)
(***************************************************************************)
EXTENDS Integers, FiniteSets, Sequences, TLC

\* ---------------------------------------------------------------- bounds
MaxStock == 2
MaxQty == 1
MaxPrice == 2
MaxLineQty == 2
MaxOrders == 2
MaxCartRows == 2
MaxWishRows == 2
MaxCategories == 2

Users == {"u1", "u2"}
ProductIds == {"p1", "p2"}
Slots == {"r1", "r2"}

Prices == 1..MaxPrice
\* row ids are opaque and never shared by two rows: <<user, product, n>> is
\* the n-th id handed out for the pair
CartIds == Users \X ProductIds \X (1..MaxCartRows)
WishIds == Users \X ProductIds \X (1..MaxWishRows)
\* request bodies: 0 is the quantity that fails isInt({ min: 1 }),
\* -1 the stock that fails isInt({ min: 0 })
QuantityInputs == 0..MaxQty
StockInputs == (-1)..MaxStock
\* req.body.sellerId of POST /api/products: no body names a seller
SellerIdInputs == {"none"}
\* name and slug of the body of POST /api/categories: "" fails notEmpty()
NameInputs == {"", "shoes"}
CategoryIds == 1..MaxCategories
Absent == -9

VARIABLES
    user, category, product, cartItem, wishlistItem, order, orderItem,
    req, res

tables == <<user, category, product, cartItem, wishlistItem, order, orderItem>>
vars ==
    <<user, category, product, cartItem, wishlistItem, order, orderItem,
      req, res>>

\* ---------------------------------------------------------------- helpers
\* sum of price * quantity over a set of rows that carry both fields
RECURSIVE SumLines(_)
SumLines(S) ==
    IF S = {} THEN 0
    ELSE LET x == CHOOSE y \in S : TRUE
         IN x.price * x.quantity + SumLines(S \ {x})

RECURSIVE SumQuantity(_)
SumQuantity(S) ==
    IF S = {} THEN 0
    ELSE LET x == CHOOSE y \in S : TRUE
         IN x.quantity + SumQuantity(S \ {x})

Idle ==
    [kind |-> "none", user |-> "none", pc |-> "idle", productId |-> "none",
     quantity |-> 0, existingCartItem |-> {}, cartItems |-> {}, total |-> 0,
     txOrder |-> FALSE, txItems |-> {}]

\* res.status(status).json(body): error is the body's error message, "errors"
\* the list of field errors of a body that fails validation
Refusal(kind, u, status, error) ==
    [kind |-> kind, user |-> u, status |-> status, error |-> error]

Response(kind, u, status) == Refusal(kind, u, status, "")

InFlight(r) == req[r].pc # "idle"

\* prisma.product.findUnique({ where: { id } })
FindProduct(productId) == {p \in product : p.id = productId}

\* prisma.cartItem.findUnique({ where: { userId_productId } })
FindCartItem(u, productId) ==
    {c \in cartItem : c.userId = u /\ c.productId = productId}

\* prisma.wishlistItem.findUnique({ where: { userId_productId } })
FindWishlistItem(u, productId) ==
    {w \in wishlistItem : w.userId = u /\ w.productId = productId}

\* req.user.role: the auth middleware puts the role of the user's row on the
\* request
RoleOf(u) == user[u]

\* ---------------------------------------------------------------- Init
Init ==
    /\ user = [u \in Users |-> IF u = "u2" THEN "ADMIN" ELSE "USER"]
    /\ category = {}
    /\ product = {}
    /\ cartItem = {}
    /\ wishlistItem = {}
    /\ order = {}
    /\ orderItem = {}
    /\ req = [r \in Slots |-> Idle]
    /\ res = Response("none", "none", 0)

\* ---------------------------------------------------------------- users
\* if (req.user.role === 'SELLER')
AlreadySellerOrAdmin(role) == role \in {"SELLER", "ADMIN"}

AlreadySeller(role) == role = "SELLER"

\* POST /api/users/become-seller
BecomeSeller(u) ==
    /\ IF AlreadySeller(RoleOf(u))
       THEN /\ res' = Refusal("becomeSeller", u, 400,
                               "User is already a seller")
            /\ UNCHANGED user
       ELSE /\ user' = [user EXCEPT ![u] = "SELLER"]
            /\ res' = Response("becomeSeller", u, 200)
    /\ UNCHANGED
        <<category, product, cartItem, wishlistItem, order, orderItem, req>>

\* ---------------------------------------------------------------- products
\* id of the row prisma.product.create inserts
NewProductId == IF FindProduct("p1") = {} THEN "p1" ELSE "p2"

\* body('stock').isInt({ min: 0 })
ProductBodyValid(price, stock) == stock >= 0

\* data.sellerId: the seller's own id, or the one the administrator's body
\* names
SellerOf(u, sellerId) == IF RoleOf(u) = "SELLER" THEN u ELSE sellerId

\* if (req.user.role !== 'ADMIN' && req.user.role !== 'SELLER')
CreateDeniedNever(role) == FALSE

CreateDenied(role) == role # "ADMIN" /\ role # "SELLER"

\* POST /api/products
ProductCreate(u, price, stock, sellerId) ==
    /\ \E id \in ProductIds : FindProduct(id) = {}
    /\ IF CreateDenied(RoleOf(u))
       THEN /\ res' = Refusal("productCreate", u, 403,
                               "Access denied. Admin or Seller only.")
            /\ UNCHANGED product
       ELSE IF ~ProductBodyValid(price, stock)
       THEN /\ res' = Refusal("productCreate", u, 400, "errors")
            /\ UNCHANGED product
       ELSE /\ product' = product \cup
                  {[id |-> NewProductId, price |-> price, stock |-> stock,
                    sellerId |-> SellerOf(u, sellerId)]}
            /\ res' = Response("productCreate", u, 201)
    /\ UNCHANGED
        <<user, category, cartItem, wishlistItem, order, orderItem, req>>

\* data of prisma.product.update in PUT /api/products/:id: a field of the
\* body that is absent keeps the row's value
UpdatedProductAddsStock(p, price, stock) ==
    [p EXCEPT !.price = IF price = Absent THEN @ ELSE price,
              !.stock = IF stock = Absent THEN @ ELSE @ + stock]

UpdatedProduct(p, price, stock) ==
    [p EXCEPT !.price = IF price = Absent THEN @ ELSE price,
              !.stock = IF stock = Absent THEN @ ELSE stock]

\* if (req.user.role !== 'ADMIN')
AccessDeniedToUserOnly(role) == role = "USER"

AccessDenied(role) == role # "ADMIN"

\* PUT /api/products/:id
ProductUpdate(u, productId, price, stock) ==
    /\ IF AccessDenied(RoleOf(u))
       THEN /\ res' = Refusal("productUpdate", u, 403,
                               "Access denied. Admin only.")
            /\ UNCHANGED product
       ELSE IF FindProduct(productId) = {}
       THEN /\ res' = Refusal("productUpdate", u, 500, "Server error")
            /\ UNCHANGED product
       ELSE /\ product' = {IF p.id = productId
                           THEN UpdatedProduct(p, price, stock) ELSE p
                           : p \in product}
            /\ res' = Response("productUpdate", u, 200)
    /\ UNCHANGED
        <<user, category, cartItem, wishlistItem, order, orderItem, req>>

\* GET /api/products/:id, which needs no token
ProductGet(productId) ==
    /\ IF FindProduct(productId) = {}
       THEN res' = Refusal("productGet", "none", 404, "Product not found")
       ELSE res' = Response("productGet", "none", 200)
    /\ UNCHANGED <<tables, req>>

\* ---------------------------------------------------------------- categories
\* body('name').notEmpty(), body('slug').notEmpty()
CategoryBodyValid(name, slug) == name # "" /\ slug # ""

NewCategoryId == Cardinality(category) + 1

\* POST /api/categories
CategoryCreate(u, name, slug) ==
    /\ Cardinality(category) < MaxCategories
    /\ IF AccessDenied(RoleOf(u))
       THEN /\ res' = Refusal("categoryCreate", u, 403,
                               "Access denied. Admin only.")
            /\ UNCHANGED category
       ELSE IF ~CategoryBodyValid(name, slug)
       THEN /\ res' = Refusal("categoryCreate", u, 400, "errors")
            /\ UNCHANGED category
       ELSE /\ category' = category \cup
                  {[id |-> NewCategoryId, name |-> name, slug |-> slug]}
            /\ res' = Response("categoryCreate", u, 201)
    /\ UNCHANGED
        <<user, product, cartItem, wishlistItem, order, orderItem, req>>

\* GET /api/categories/:id, which needs no token
CategoryGet(id) ==
    /\ IF ~\E c \in category : c.id = id
       THEN res' = Refusal("categoryGet", "none", 404, "Category not found")
       ELSE res' = Response("categoryGet", "none", 200)
    /\ UNCHANGED <<tables, req>>

\* ---------------------------------------------------------------- cart
\* ids that a handler in flight still holds
HeldCartIds ==
    UNION {{c.id : c \in req[r].existingCartItem} : r \in Slots}

\* ids prisma.cartItem.create may give the row it inserts (never one in use)
FreeCartIds(u, productId) ==
    {id \in CartIds : id[1] = u /\ id[2] = productId}
        \ ({c.id : c \in cartItem} \cup HeldCartIds)

MinId(ids) == CHOOSE id \in ids : \A other \in ids : id[3] <= other[3]

\* @@unique([userId, productId]) of CartItem, which the compound key
\* userId_productId of findUnique names
CartUniqueViolationNever(u, productId) == FALSE

CartUniqueViolation(u, productId) == FindCartItem(u, productId) # {}

\* POST /api/cart, up to the result of prisma.product.findUnique
CartAddProduct(r, u, productId, quantity) ==
    /\ ~InFlight(r)
    /\ SumQuantity(FindCartItem(u, productId)) + quantity <= MaxLineQty
    /\ IF quantity < 1
       THEN /\ res' = Refusal("cartAdd", u, 400, "errors")
            /\ UNCHANGED req
       ELSE IF FindProduct(productId) = {}
       THEN /\ res' = Refusal("cartAdd", u, 404, "Product not found")
            /\ UNCHANGED req
       ELSE IF \E p \in FindProduct(productId) : p.stock < quantity
       THEN /\ res' = Refusal("cartAdd", u, 400, "Insufficient stock")
            /\ UNCHANGED req
       ELSE /\ req' = [req EXCEPT ![r] =
                  [Idle EXCEPT !.kind = "cartAdd", !.user = u,
                               !.pc = "findCartItem",
                               !.productId = productId,
                               !.quantity = quantity]]
            /\ UNCHANGED res
    /\ UNCHANGED tables

\* POST /api/cart: prisma.cartItem.findUnique
CartAddFind(r) ==
    /\ req[r].kind = "cartAdd" /\ req[r].pc = "findCartItem"
    /\ LET found == FindCartItem(req[r].user, req[r].productId)
       IN req' = [req EXCEPT ![r].pc = "write",
                      ![r].existingCartItem =
                          IF found = {} THEN {}
                          ELSE {CHOOSE c \in found : TRUE}]
    /\ UNCHANGED <<tables, res>>

\* data: { quantity: existingCartItem.quantity + quantity }
MergedQuantityOverwrite(existingCartItem, quantity) == quantity

MergedQuantity(existingCartItem, quantity) ==
    existingCartItem.quantity + quantity

\* POST /api/cart: prisma.cartItem.update or prisma.cartItem.create
CartAddWrite(r) ==
    /\ req[r].kind = "cartAdd" /\ req[r].pc = "write"
    /\ LET u == req[r].user
           existingCartItem == req[r].existingCartItem
       IN IF existingCartItem # {}
          THEN LET e == CHOOSE c \in existingCartItem : TRUE
               IN IF \E c \in cartItem : c.id = e.id
                  THEN /\ e.quantity + req[r].quantity <= MaxLineQty
                       /\ cartItem' =
                            {IF c.id = e.id
                             THEN [c EXCEPT !.quantity =
                                       MergedQuantity(e, req[r].quantity)]
                             ELSE c : c \in cartItem}
                       /\ res' = Response("cartAdd", u, 201)
                  ELSE /\ res' = Refusal("cartAdd", u, 500, "Server error")
                       /\ UNCHANGED cartItem
          ELSE IF CartUniqueViolation(u, req[r].productId)
               THEN /\ res' = Refusal("cartAdd", u, 500, "Server error")
                    /\ UNCHANGED cartItem
               ELSE /\ FreeCartIds(u, req[r].productId) # {}
                    /\ cartItem' = cartItem \cup
                          {[id |-> MinId(FreeCartIds(u, req[r].productId)),
                            userId |-> u,
                            productId |-> req[r].productId,
                            quantity |-> req[r].quantity]}
                    /\ res' = Response("cartAdd", u, 201)
    /\ req' = [req EXCEPT ![r] = Idle]
    /\ UNCHANGED <<user, category, product, wishlistItem, order, orderItem>>

\* PUT /api/cart/:id
CartUpdate(u, id, quantity) ==
    /\ IF quantity < 1
       THEN /\ res' = Refusal("cartUpdate", u, 400, "errors")
            /\ UNCHANGED cartItem
       ELSE IF ~\E c \in cartItem : c.id = id /\ c.userId = u
       THEN /\ res' = Refusal("cartUpdate", u, 500, "Server error")
            /\ UNCHANGED cartItem
       ELSE /\ cartItem' = {IF c.id = id /\ c.userId = u
                            THEN [c EXCEPT !.quantity = quantity] ELSE c
                            : c \in cartItem}
            /\ res' = Response("cartUpdate", u, 200)
    /\ UNCHANGED
        <<user, category, product, wishlistItem, order, orderItem, req>>

\* DELETE /api/cart/:id
CartRemove(u, id) ==
    /\ IF ~\E c \in cartItem : c.id = id /\ c.userId = u
       THEN /\ res' = Refusal("cartRemove", u, 500, "Server error")
            /\ UNCHANGED cartItem
       ELSE /\ cartItem' = {c \in cartItem : ~(c.id = id /\ c.userId = u)}
            /\ res' = Response("cartRemove", u, 200)
    /\ UNCHANGED
        <<user, category, product, wishlistItem, order, orderItem, req>>

\* ---------------------------------------------------------------- wishlist
FreeWishIds(u, productId) ==
    {id \in WishIds : id[1] = u /\ id[2] = productId}
        \ {w.id : w \in wishlistItem}

\* @@unique([userId, productId]) of WishlistItem
WishUniqueViolation(u, productId) == FindWishlistItem(u, productId) # {}

\* POST /api/wishlist, up to the result of prisma.product.findUnique
WishAddProduct(r, u, productId) ==
    /\ ~InFlight(r)
    /\ IF productId = ""
       THEN /\ res' = Refusal("wishAdd", u, 400, "errors")
            /\ UNCHANGED req
       ELSE IF FindProduct(productId) = {}
       THEN /\ res' = Refusal("wishAdd", u, 404, "Product not found")
            /\ UNCHANGED req
       ELSE /\ req' = [req EXCEPT ![r] =
                  [Idle EXCEPT !.kind = "wishAdd", !.user = u,
                               !.pc = "findWishlistItem",
                               !.productId = productId]]
            /\ UNCHANGED res
    /\ UNCHANGED tables

\* if (existingItem)
AlreadyInWishlistNever(existingItem) == FALSE

AlreadyInWishlist(existingItem) == existingItem # {}

\* POST /api/wishlist: prisma.wishlistItem.findUnique and the duplicate check
WishAddFind(r) ==
    /\ req[r].kind = "wishAdd" /\ req[r].pc = "findWishlistItem"
    /\ IF AlreadyInWishlist(
             FindWishlistItem(req[r].user, req[r].productId))
       THEN /\ res' = Refusal("wishAdd", req[r].user, 400,
                               "Product already in wishlist")
            /\ req' = [req EXCEPT ![r] = Idle]
       ELSE /\ req' = [req EXCEPT ![r].pc = "create"]
            /\ UNCHANGED res
    /\ UNCHANGED tables

\* POST /api/wishlist: prisma.wishlistItem.create
WishAddCreate(r) ==
    /\ req[r].kind = "wishAdd" /\ req[r].pc = "create"
    /\ IF WishUniqueViolation(req[r].user, req[r].productId)
       THEN /\ res' = Refusal("wishAdd", req[r].user, 500, "Server error")
            /\ UNCHANGED wishlistItem
       ELSE /\ FreeWishIds(req[r].user, req[r].productId) # {}
            /\ wishlistItem' = wishlistItem \cup
                  {[id |-> MinId(FreeWishIds(req[r].user, req[r].productId)),
                    userId |-> req[r].user,
                    productId |-> req[r].productId]}
            /\ res' = Response("wishAdd", req[r].user, 201)
    /\ req' = [req EXCEPT ![r] = Idle]
    /\ UNCHANGED <<user, category, product, cartItem, order, orderItem>>

\* DELETE /api/wishlist/:productId
WishRemove(u, productId) ==
    /\ IF FindWishlistItem(u, productId) = {}
       THEN /\ res' = Refusal("wishRemove", u, 500, "Server error")
            /\ UNCHANGED wishlistItem
       ELSE /\ wishlistItem' = wishlistItem \ FindWishlistItem(u, productId)
            /\ res' = Response("wishRemove", u, 200)
    /\ UNCHANGED <<user, category, product, cartItem, order, orderItem, req>>

\* ---------------------------------------------------------------- orders
\* one element of prisma.cartItem.findMany({ include: { product: true } })
CartLine(c) ==
    LET p == CHOOSE q \in product : q.id = c.productId
    IN [id |-> c.id, productId |-> c.productId, quantity |-> c.quantity,
        price |-> p.price, stock |-> p.stock]

UserCartLines(u) == {CartLine(c) : c \in {d \in cartItem : d.userId = u}}

\* if (cartItems.length === 0)
EmptyCartAlways(cartItems) == FALSE

EmptyCart(cartItems) == cartItems = {}

\* if (item.product.stock < item.quantity)
InsufficientStockNoQuantity(item) == item.stock < 1

InsufficientStockReversed(item) == item.quantity < item.stock

InsufficientStock(item) == item.stock < item.quantity

\* total += parseFloat(item.product.price) * item.quantity
OrderTotal(cartItems) == SumLines(cartItems)

OrdersInFlight == Cardinality({r \in Slots : req[r].kind = "order"})

\* POST /api/orders: prisma.cartItem.findMany, the empty-cart check and the
\* stock pre-check loop
OrderRead(r, u) ==
    /\ ~InFlight(r)
    /\ Cardinality(order) + OrdersInFlight < MaxOrders
    /\ LET cartItems == UserCartLines(u)
       IN IF EmptyCart(cartItems)
          THEN /\ res' = Refusal("order", u, 400, "Cart is empty")
               /\ UNCHANGED req
          ELSE IF \E item \in cartItems : InsufficientStock(item)
          THEN /\ res' = Refusal("order", u, 400, "Insufficient stock for")
               /\ UNCHANGED req
          ELSE /\ req' = [req EXCEPT ![r] =
                     [Idle EXCEPT !.kind = "order", !.user = u,
                                  !.pc = "createOrder",
                                  !.cartItems = cartItems,
                                  !.total = OrderTotal(cartItems)]]
               /\ UNCHANGED res
    /\ UNCHANGED tables

\* in the transaction: prisma.order.create
OrderTxCreate(r) ==
    /\ req[r].kind = "order" /\ req[r].pc = "createOrder"
    /\ req' = [req EXCEPT ![r].pc = "items", ![r].txOrder = TRUE]
    /\ UNCHANGED <<tables, res>>

\* lines of the snapshot the loop of the transaction has not reached yet
RemainingItems(r) == {i \in req[r].cartItems : i.id \notin req[r].txItems}

\* for (const item of cartItems): the rows come in the order of their products
NextItem(items) ==
    IF \E i \in items : i.productId = "p1"
    THEN CHOOSE i \in items : i.productId = "p1"
    ELSE CHOOSE i \in items : TRUE

\* in the transaction: one round of the loop, prisma.orderItem.create and
\* prisma.product.update({ stock: { decrement } })
OrderTxItem(r) ==
    /\ req[r].kind = "order" /\ req[r].pc = "items"
    /\ RemainingItems(r) # {}
    /\ req' = [req EXCEPT ![r].txItems =
                  @ \cup {NextItem(RemainingItems(r)).id}]
    /\ UNCHANGED <<tables, res>>

NewOrderId == Cardinality(order) + 1

\* data of prisma.order.create
OrderRow(id, u, total) ==
    [id |-> id, userId |-> u, total |-> total, status |-> "PENDING"]

\* data of prisma.orderItem.create
OrderItemRowCurrentPrice(orderId, item) ==
    [id |-> <<orderId, item.productId>>, orderId |-> orderId,
     productId |-> item.productId, quantity |-> item.quantity,
     price |-> (CHOOSE p \in product : p.id = item.productId).price]

OrderItemRow(orderId, item) ==
    [id |-> <<orderId, item.productId>>, orderId |-> orderId,
     productId |-> item.productId, quantity |-> item.quantity,
     price |-> item.price]

\* stock: { decrement: item.quantity }, once per line written for the product
DecrementStockByOne(p, items) ==
    [p EXCEPT !.stock = @ - Cardinality({i \in items : i.productId = p.id})]

DecrementStockIfEnough(p, items) ==
    IF p.stock >= SumQuantity({i \in items : i.productId = p.id})
    THEN [p EXCEPT !.stock =
             @ - SumQuantity({i \in items : i.productId = p.id})]
    ELSE p

DecrementStock(p, items) ==
    [p EXCEPT !.stock =
        @ - SumQuantity({i \in items : i.productId = p.id})]

\* the writes the transaction holds, as they reach the tables, with
\* prisma.cartItem.deleteMany({ where: { userId } }) when the loop is over
TxWrites(r) ==
    LET written == {i \in req[r].cartItems : i.id \in req[r].txItems}
    IN /\ order' = IF req[r].txOrder
                   THEN order \cup
                        {OrderRow(NewOrderId, req[r].user, req[r].total)}
                   ELSE order
       /\ orderItem' = orderItem \cup
                          {OrderItemRow(NewOrderId, i) : i \in written}
       /\ product' = {DecrementStock(p, written) : p \in product}
       /\ cartItem' = IF RemainingItems(r) = {}
                      THEN {c \in cartItem : c.userId # req[r].user}
                      ELSE cartItem

\* the loop is over: prisma.cartItem.deleteMany, and the transaction commits
OrderTxCommit(r) ==
    /\ req[r].kind = "order" /\ req[r].pc = "items"
    /\ RemainingItems(r) = {}
    /\ TxWrites(r)
    /\ req' = [req EXCEPT ![r].pc = "fetch"]
    /\ UNCHANGED <<user, category, wishlistItem, res>>

\* a write of the transaction (or its commit) throws: rollback, then the
\* catch block of the handler
OrderTxFailNoRollback(r) ==
    /\ req[r].kind = "order"
    /\ req[r].pc \in {"createOrder", "items"}
    /\ res' = Refusal("order", req[r].user, 500, "Server error")
    /\ req' = [req EXCEPT ![r] = Idle]
    /\ TxWrites(r)
    /\ UNCHANGED <<user, category, wishlistItem>>

OrderTxFail(r) ==
    /\ req[r].kind = "order"
    /\ req[r].pc \in {"createOrder", "items"}
    /\ res' = Refusal("order", req[r].user, 500, "Server error")
    /\ req' = [req EXCEPT ![r] = Idle]
    /\ UNCHANGED tables

\* prisma.order.findUnique and res.status(201).json(order)
OrderRespond(r) ==
    /\ req[r].kind = "order" /\ req[r].pc = "fetch"
    /\ res' = Response("order", req[r].user, 201)
    /\ req' = [req EXCEPT ![r] = Idle]
    /\ UNCHANGED tables

\* prisma.order.findFirst({ where: { id, userId } })
FindOrderOfAnyUser(u, id) == {o \in order : o.id = id}

FindOrder(u, id) == {o \in order : o.id = id /\ o.userId = u}

\* GET /api/orders/:id
OrderGet(u, id) ==
    /\ IF FindOrder(u, id) = {}
       THEN res' = Refusal("orderGet", u, 404, "Order not found")
       ELSE res' = Response("orderGet", u, 200)
    /\ UNCHANGED <<tables, req>>

\* ---------------------------------------------------------------- Next
NoneInFlight == \A r \in Slots : ~InFlight(r)

\* requests in flight are interchangeable: a new one takes the first free slot
FreeSlots == IF ~InFlight("r1") THEN {"r1"} ELSE {"r2"}

\* the :id of a request on /api/cart/:id: a row's id, or one no row has
CartIdInputs == {c.id : c \in cartItem} \cup {<<"u1", "p1", MaxCartRows>>}

\* POST /api/users/become-seller arrives
StartAccount(US) == \E u \in US : BecomeSeller(u)

\* PUT /api/products/:id arrives
StartAdmin(US, PS) ==
    \E u \in US, productId \in PS,
       price \in Prices \cup {Absent}, stock \in StockInputs \cup {Absent} :
        ProductUpdate(u, productId, price, stock)

\* POST /api/products arrives
StartCatalog(US, PS) ==
    \E u \in US, price \in Prices, stock \in StockInputs,
       sellerId \in SellerIdInputs :
        NewProductId \in PS /\ ProductCreate(u, price, stock, sellerId)

\* POST /api/categories arrives
StartCategory(US) ==
    \E u \in US, name \in NameInputs, slug \in NameInputs :
        CategoryCreate(u, name, slug)

\* POST /api/products or POST /api/categories arrives with a body that fails
\* validation
StartInvalid(US) ==
    \E u \in US :
        \/ \E price \in Prices, sellerId \in SellerIdInputs :
              ProductCreate(u, price, -1, sellerId)
        \/ \E name \in NameInputs : CategoryCreate(u, name, "")

\* GET /api/orders/:id arrives
StartOrderGet(US) == \E u \in US, id \in 1..MaxOrders : OrderGet(u, id)

\* a GET of one row arrives
StartGet(US, PS) ==
    \/ \E productId \in PS : ProductGet(productId)
    \/ \E id \in CategoryIds : CategoryGet(id)
    \/ StartOrderGet(US)

\* a request on the wishlist arrives
StartWish(US, PS) ==
    \/ \E r \in FreeSlots, u \in US, productId \in PS \cup {""} :
          WishAddProduct(r, u, productId)
    \/ \E u \in US, productId \in PS : WishRemove(u, productId)

\* POST /api/cart arrives
StartCartAdd(US, PS) ==
    \E r \in FreeSlots, u \in US, productId \in PS,
       quantity \in QuantityInputs :
        CartAddProduct(r, u, productId, quantity)

\* PUT or DELETE /api/cart/:id arrives
StartCartEdit(US) ==
    \/ \E u \in US, id \in CartIdInputs, quantity \in QuantityInputs :
          CartUpdate(u, id, quantity)
    \/ \E u \in US, id \in CartIdInputs : CartRemove(u, id)

\* POST /api/orders arrives
StartOrder(US) == \E r \in FreeSlots, u \in US : OrderRead(r, u)

\* a handler in flight resumes after an await
ResumeWish ==
    \E r \in Slots :
        \/ WishAddFind(r)
        \/ WishAddCreate(r)

ResumeCart ==
    \E r \in Slots :
        \/ CartAddFind(r)
        \/ CartAddWrite(r)

ResumeOrder ==
    \E r \in Slots :
        \/ OrderTxCreate(r)
        \/ OrderTxItem(r)
        \/ OrderTxCommit(r)
        \/ OrderTxFail(r)
        \/ OrderRespond(r)

Next ==
    \/ StartAccount(Users)
    \/ StartInvalid(Users)
    \/ StartCategory(Users)
    \/ StartGet(Users, ProductIds)
    \/ StartAdmin(Users, ProductIds)
    \/ StartCatalog(Users, ProductIds)
    \/ StartWish(Users, ProductIds)
    \/ StartCartAdd(Users, ProductIds)
    \/ StartCartEdit(Users)
    \/ StartOrder(Users)
    \/ ResumeWish
    \/ ResumeCart
    \/ ResumeOrder

\* the whole API, requests arriving and resuming in any order
Spec == Init /\ [][Next]_vars

\* Product creation, cart and orders, every request running to completion
\* before the next one starts.  Both users shop for p1, u2 also for p2.
NextShopSeq ==
    \/ /\ NoneInFlight
       /\ \/ StartCatalog(Users, ProductIds)
          \/ StartCartAdd(Users, {"p1"})
          \/ StartCartAdd({"u2"}, {"p2"})
          \/ StartCartEdit(Users)
          \/ StartOrder(Users)
    \/ ResumeCart
    \/ ResumeOrder

SpecShopSeq == Init /\ [][NextShopSeq]_vars

\* Product creation, adding to the cart and orders of two users on one
\* product, requests arriving and resuming in any order.
NextShop ==
    \/ StartCatalog(Users, {"p1"})
    \/ StartCartAdd(Users, {"p1"})
    \/ StartOrder(Users)
    \/ ResumeCart
    \/ ResumeOrder

SpecShop == Init /\ [][NextShop]_vars

\* Product creation, adding to the cart and the wishlist of two users on one
\* product, requests arriving and resuming in any order.
NextAdd ==
    \/ StartCatalog(Users, {"p1"})
    \/ StartCartAdd(Users, {"p1"})
    \/ StartWish(Users, {"p1"})
    \/ ResumeCart
    \/ ResumeWish

SpecAdd == Init /\ [][NextAdd]_vars

\* The administrator's product updates against the administrator's own cart
\* and orders on one product, requests arriving and resuming in any order.
NextPrice ==
    \/ StartAdmin({"u2"}, {"p1"})
    \/ StartCatalog({"u2"}, {"p1"})
    \/ StartCartAdd({"u2"}, {"p1"})
    \/ StartOrder({"u2"})
    \/ ResumeCart
    \/ ResumeOrder

SpecPrice == Init /\ [][NextPrice]_vars

\* Accounts, the catalogue and its categories: the role-gated requests of both
\* users, who may become sellers; product updates aim at p1.
NextStaff ==
    \/ StartAccount(Users)
    \/ StartCatalog(Users, ProductIds)
    \/ StartAdmin(Users, {"p1"})
    \/ StartCategory(Users)

SpecStaff == Init /\ [][NextStaff]_vars

\* Every kind of request against one product, each request running to
\* completion before the next one starts: the administrator u2 keeps the
\* catalogue and shops, u1 changes role.
NextStock ==
    \/ /\ NoneInFlight
       /\ \/ StartAccount({"u1"})
          \/ StartAdmin({"u2"}, {"p1"})
          \/ StartCatalog({"u2"}, {"p1"})
          \/ StartCategory({"u2"})
          \/ StartWish({"u2"}, {"p1"})
          \/ StartCartAdd({"u2"}, {"p1"})
          \/ StartCartEdit({"u2"})
          \/ StartOrder({"u2"})
    \/ ResumeWish
    \/ ResumeCart
    \/ ResumeOrder

SpecStock == Init /\ [][NextStock]_vars

\* Requests for single rows, present or not, each request running to
\* completion before the next one starts: u2 keeps the catalogue of p1 and
\* the categories, u1 reads and edits a cart and a wishlist; p2 is never
\* created.
NextLookup ==
    \/ /\ NoneInFlight
       /\ \/ StartCatalog({"u2"}, {"p1"})
          \/ StartCategory({"u2"})
          \/ StartAdmin({"u2"}, ProductIds)
          \/ StartGet({"u1"}, ProductIds)
          \/ StartCartAdd({"u1"}, ProductIds)
          \/ StartCartEdit({"u1"})
          \/ StartWish({"u1"}, ProductIds)
    \/ ResumeCart
    \/ ResumeWish

SpecLookup == Init /\ [][NextLookup]_vars

\* Creation of products and categories: every body of u1 fails validation,
\* u2 sends bodies of both kinds; both may become sellers.
NextGate ==
    \/ StartAccount(Users)
    \/ StartInvalid({"u1"})
    \/ StartCatalog({"u2"}, ProductIds)
    \/ StartCategory({"u2"})

SpecGate == Init /\ [][NextGate]_vars

\* Two users with carts, wishlists and orders on one product, each request
\* running to completion before the next one starts; a request on
\* /api/cart/:id or /api/orders/:id may name a row of the other user.
NextPrivacy ==
    \/ /\ NoneInFlight
       /\ \/ StartCatalog({"u2"}, {"p1"})
          \/ StartCartAdd(Users, {"p1"})
          \/ StartCartEdit(Users)
          \/ StartWish(Users, {"p1"})
          \/ StartOrder(Users)
          \/ StartOrderGet(Users)
    \/ ResumeCart
    \/ ResumeWish
    \/ ResumeOrder

SpecPrivacy == Init /\ [][NextPrivacy]_vars

\* ================================================================ claims
UserCart(u) == {c \in cartItem : c.userId = u}

PriceOf(productId) == (CHOOSE p \in product : p.id = productId).price

StockOf(productId) == (CHOOSE p \in product : p.id = productId).stock

\* quantity of a product in a set of cart rows
Ordered(lines, productId) ==
    SumQuantity({c \in lines : c.productId = productId})

\* sum over cart rows of the product's price times the row's quantity
CartValue(lines) ==
    SumLines({[id |-> c.id, price |-> PriceOf(c.productId),
               quantity |-> c.quantity] : c \in lines})

ItemsOf(o) == {i \in orderItem : i.orderId = o.id}

\* the step in which the transaction of request r commits
Commits(r) ==
    req[r].kind = "order" /\ req[r].pc = "items" /\ req'[r].pc = "fetch"

\* the step in which request r sends its response
Finishes(r) == InFlight(r) /\ req'[r].pc = "idle"

\* ---------------------------------------------------------------- C1
\* what a committed order placement of request r leaves, against the cart
\* and the products of the state before
OrderEffects(r) ==
    LET u == req[r].user
        lines == UserCart(u)
        newOrders == order' \ order
        newItems == orderItem' \ orderItem
    IN /\ lines # {}
       /\ \A p \in product :
             [p EXCEPT !.stock = @ - Ordered(lines, p.id)] \in product'
       /\ Cardinality(product') = Cardinality(product)
       /\ cartItem' = cartItem \ lines
       /\ order \subseteq order' /\ Cardinality(newOrders) = 1
       /\ orderItem \subseteq orderItem'
       /\ Cardinality(newItems) = Cardinality(lines)
       /\ \A o \in newOrders :
             /\ o.userId = u
             /\ o.status = "PENDING"
             /\ o.total = CartValue(lines)
             /\ \A i \in newItems : i.orderId = o.id
             /\ \A c \in lines :
                   Cardinality({i \in newItems :
                       /\ i.productId = c.productId
                       /\ i.quantity = c.quantity
                       /\ i.price = PriceOf(c.productId)}) = 1

\* C1: when requests do not interleave, POST /api/orders of a user whose
\* cart is non-empty and whose every line is within stock passes the checks;
\* its commit decreases each ordered product's stock by the ordered quantity,
\* empties the user's cart and adds one PENDING order whose total is the sum
\* of price * quantity, with one order item per cart line; and unless a
\* write of the transaction throws, it responds 201.
C1_OrderPlaced ==
    [][\A r \in Slots :
          /\ \A u \in Users :
                (/\ OrderRead(r, u)
                 /\ UserCart(u) # {}
                 /\ \A c \in UserCart(u) : c.quantity <= StockOf(c.productId))
                => req'[r].kind = "order"
          /\ Commits(r) => OrderEffects(r)
          /\ (req[r].kind = "order" /\ Finishes(r)) =>
                IF req[r].pc = "fetch"
                THEN res' = Response("order", req[r].user, 201)
                ELSE res' = Refusal("order", req[r].user, 500, "Server error")
      ]_vars

\* an order of two lines has been placed and answered, the cart is empty
C1_Witness ==
    /\ NoneInFlight
    /\ \E o \in order :
          /\ res = Response("order", o.userId, 201)
          /\ Cardinality(ItemsOf(o)) = 2
          /\ o.total = SumLines(ItemsOf(o))
          /\ \E i \in ItemsOf(o) : i.quantity = 2 /\ i.price = 2
          /\ UserCart(o.userId) = {}

\* ---------------------------------------------------------------- C2
\* C2: POST /api/orders of a user one of whose cart lines has a quantity
\* above the product's stock responds 400 and changes no table.
C2_InsufficientStockRejected ==
    [][\A r \in Slots, u \in Users :
          (/\ OrderRead(r, u)
           /\ \E c \in UserCart(u) : c.quantity > StockOf(c.productId))
          => /\ res' = Refusal("order", u, 400, "Insufficient stock for")
             /\ UNCHANGED tables
             /\ UNCHANGED req
      ]_vars

\* an order was refused for a cart with one line above stock and another
\* line within stock
C2_Witness ==
    /\ NoneInFlight
    /\ \E u \in Users :
          /\ res = Refusal("order", u, 400, "Insufficient stock for")
          /\ \E c \in UserCart(u) : c.quantity > StockOf(c.productId)
          /\ \E c \in UserCart(u) :
                c.quantity <= StockOf(c.productId) /\ StockOf(c.productId) > 0

\* ---------------------------------------------------------------- C3
\* C3: POST /api/orders of a user whose cart has no rows responds 400 and
\* changes no table.
C3_EmptyCartRejected ==
    [][\A r \in Slots, u \in Users :
          (OrderRead(r, u) /\ UserCart(u) = {})
          => /\ res' = Refusal("order", u, 400, "Cart is empty")
             /\ UNCHANGED tables
             /\ UNCHANGED req
      ]_vars

\* an order was refused for an empty cart while products are on sale
C3_Witness ==
    /\ NoneInFlight
    /\ product # {}
    /\ \E u \in Users :
          /\ res = Refusal("order", u, 400, "Cart is empty")
          /\ UserCart(u) = {}

\* ---------------------------------------------------------------- C4
\* what the commit of request r makes visible: the order, one order item
\* per line of the cart it read, each line's stock decrement, and no cart
\* row of the user
AllWrites(r) ==
    LET u == req[r].user
        newOrders == order' \ order
        newItems == orderItem' \ orderItem
    IN /\ order \subseteq order' /\ Cardinality(newOrders) = 1
       /\ \A o \in newOrders : o.userId = u
       /\ orderItem \subseteq orderItem'
       /\ Cardinality(newItems) = Cardinality(req[r].cartItems)
       /\ \A p \in product :
             [p EXCEPT !.stock = @ - Ordered(req[r].cartItems, p.id)]
                 \in product'
       /\ \A c \in cartItem' : c.userId # u

\* C4: every step of an order placement either leaves all tables as they
\* are or is the commit, which makes all its writes visible at once; a
\* step in which a write of the transaction throws leaves the tables
\* unchanged, responds 500 and ends the request (no retry).
C4_AllOrNothing ==
    [][\A r \in Slots :
          /\ (req[r].kind = "order" /\ req'[r] # req[r]) =>
                \/ UNCHANGED tables
                \/ Commits(r) /\ AllWrites(r)
          /\ (/\ req[r].kind = "order"
              /\ req[r].pc \in {"createOrder", "items"}
              /\ Finishes(r)) =>
                /\ UNCHANGED tables
                /\ res' = Refusal("order", req[r].user, 500, "Server error")
                /\ req'[r] = Idle
      ]_vars

\* an order placement failed in its transaction while another request was
\* in flight: the cart it read is still there and within stock, there is
\* no order
C4_Witness ==
    /\ order = {} /\ orderItem = {}
    /\ \E r \in Slots : InFlight(r)
    /\ \E u \in Users :
          /\ res = Refusal("order", u, 500, "Server error")
          /\ UserCart(u) # {}
          /\ \A c \in UserCart(u) : c.quantity <= StockOf(c.productId)

\* ---------------------------------------------------------------- C5
\* C5: an order placement commits after a pre-check that compared each
\* line with the stock it read, and its commit takes the quantities off
\* the stock of that moment, whatever it is; two placements that read the
\* same stock both commit, and the stock goes below zero.
C5_UncheckedDecrement ==
    [][\A r \in Slots :
          Commits(r) =>
             /\ \A i \in req[r].cartItems : i.quantity <= i.stock
             /\ \A p \in product :
                   [p EXCEPT !.stock = @ - Ordered(req[r].cartItems, p.id)]
                       \in product'
      ]_vars

\* two users' placements for the same product were each within the stock
\* they read, both committed, and the stock is negative
C5_Witness ==
    \E r \in Slots :
       /\ req[r].kind = "order" /\ req[r].pc = "fetch"
       /\ \E i \in req[r].cartItems, o \in order :
             /\ o.userId # req[r].user
             /\ \E j \in ItemsOf(o) :
                   /\ j.productId = i.productId
                   /\ j.quantity <= i.stock
                   /\ i.quantity <= i.stock
                   /\ StockOf(i.productId) = i.stock - i.quantity - j.quantity
                   /\ StockOf(i.productId) < 0

\* ---------------------------------------------------------------- C6
\* C6: when requests do not interleave, no sequence of product creations,
\* cart changes and order placements makes a product's stock negative.
C6_StockNotNegative == \A p \in product : p.stock >= 0

\* an order was refused because another user's order had taken the stock
\* the cart line needs
C6_Witness ==
    /\ NoneInFlight
    /\ \E u \in Users :
          /\ res = Refusal("order", u, 400, "Insufficient stock for")
          /\ \E c \in UserCart(u), o \in order :
                /\ c.quantity > StockOf(c.productId)
                /\ o.userId # u
                /\ \E i \in ItemsOf(o) : i.productId = c.productId

\* ---------------------------------------------------------------- C7
\* C7: when requests do not interleave, a POST /api/cart that passes its
\* checks responds 201 and leaves exactly one row for the (user, product):
\* a new row with the requested quantity if there was none, else the same
\* row with the requested quantity added; no other row changes.
C7_AddMerges ==
    [][\A r \in Slots :
          (req[r].kind = "cartAdd" /\ Finishes(r)) =>
             LET u == req[r].user
                 before == FindCartItem(u, req[r].productId)
                 after == {c \in cartItem' :
                              /\ c.userId = u
                              /\ c.productId = req[r].productId}
             IN /\ res' = Response("cartAdd", u, 201)
                /\ Cardinality(after) = 1
                /\ \A c \in after :
                      /\ c.quantity = SumQuantity(before) + req[r].quantity
                      /\ \A b \in before : b.id = c.id
                /\ cartItem' \ after = cartItem \ before
      ]_vars

\* a second add for the same product has been answered: one row, holding
\* more than a single request can ask for
C7_Witness ==
    /\ NoneInFlight
    /\ \E u \in Users, productId \in ProductIds :
          /\ res = Response("cartAdd", u, 201)
          /\ Cardinality(FindCartItem(u, productId)) = 1
          /\ \A c \in FindCartItem(u, productId) : c.quantity > MaxQty

\* ---------------------------------------------------------------- C8
\* C8: when the duplicate check of POST /api/wishlist finds the product in
\* the caller's wishlist, the request responds 400 and no table changes.
C8_DuplicateWishRejected ==
    [][\A r \in Slots :
          (/\ req[r].kind = "wishAdd" /\ req[r].pc = "findWishlistItem"
           /\ req'[r] # req[r]
           /\ FindWishlistItem(req[r].user, req[r].productId) # {})
          => /\ res' = Refusal("wishAdd", req[r].user, 400,
                               "Product already in wishlist")
             /\ req'[r] = Idle
             /\ UNCHANGED tables
      ]_vars

\* a duplicate add has been refused and the row is still there
C8_Witness ==
    \E u \in Users, productId \in ProductIds :
       /\ res = Refusal("wishAdd", u, 400, "Product already in wishlist")
       /\ Cardinality(FindWishlistItem(u, productId)) = 1

\* ---------------------------------------------------------------- C9
\* C9: in every state the cart and the wishlist hold at most one row per
\* (user, product), whatever the interleaving of the adds.
C9_OneRowPerPair ==
    \A u \in Users, productId \in ProductIds :
       /\ Cardinality(FindCartItem(u, productId)) <= 1
       /\ Cardinality(FindWishlistItem(u, productId)) <= 1

\* two adds of one user for one product raced: the second one to write
\* found no row when it looked, and its create is about to meet the row of
\* the first
C9_Witness ==
    \E r \in Slots :
       /\ req[r].kind = "cartAdd" /\ req[r].pc = "write"
       /\ req[r].existingCartItem = {}
       /\ Cardinality(FindCartItem(req[r].user, req[r].productId)) = 1

\* ---------------------------------------------------------------- C10
OrderTotalsMatch ==
    \A o \in order : o.total = SumLines(ItemsOf(o)) /\ o.status = "PENDING"

OrdersKept ==
    /\ order \subseteq order'
    /\ orderItem \subseteq orderItem'
    /\ \A i \in orderItem' \ orderItem : \A o \in order : i.orderId # o.id

\* C10: every order's total is the sum of its items' price * quantity and
\* its status is PENDING, and no step changes or removes an order or an
\* order item or adds an item to an existing order, whatever the
\* interleaving with product updates.
C10_OrderSnapshot == []OrderTotalsMatch /\ [][OrdersKept]_vars

\* an order item keeps the price it was sold at after the product's price
\* was changed
C10_Witness ==
    \E o \in order : \E i \in ItemsOf(o) : i.price # PriceOf(i.productId)

\* ---------------------------------------------------------------- C11
\* C11: PUT /api/products/:id by a user whose role is not ADMIN, the seller
\* who owns the product included, responds 403 and leaves the products as
\* they were.
C11_NonAdminUpdateDenied ==
    [][\A u \in Users :
          (user[u] # "ADMIN" /\ res'.kind = "productUpdate")
              => \A productId \in ProductIds, price \in Prices \cup {Absent},
                    stock \in StockInputs \cup {Absent} :
                    ProductUpdate(u, productId, price, stock)
                        => /\ res' = Refusal("productUpdate", u, 403,
                                             "Access denied. Admin only.")
                           /\ product' = product]_vars

\* the seller who owns p1 has been refused the update of p1
C11_Witness ==
    \E u \in Users, p \in product :
        /\ p.id = "p1" /\ p.sellerId = u
        /\ user[u] = "SELLER"
        /\ res = Refusal("productUpdate", u, 403, "Access denied. Admin only.")

\* ---------------------------------------------------------------- C12
\* the products whose stock the step changes, as <<row before, row after>>
StockChanges ==
    {pq \in product \X product' :
        pq[1].id = pq[2].id /\ pq[1].stock # pq[2].stock}

\* C12: the stock of an existing product is changed only by the commit of an
\* order placement, and only downwards: no other request changes it, and
\* none raises it.
C12_StockOnlyDecreasedByOrders ==
    [][\A pq \in StockChanges :
          /\ \E r \in Slots : Commits(r)
          /\ pq[2].stock < pq[1].stock]_vars

\* C12, amended: the stock of an existing product is changed only by the
\* commit of an order placement, which lowers it, and by the administrator's
\* PUT /api/products/:id whose body carries a stock, which sets it to the
\* integer of the body, higher or lower; no other request changes it.
C12_StockChangedByOrdersAndAdmin ==
    [][\A pq \in StockChanges :
          \/ /\ \E r \in Slots : Commits(r)
             /\ pq[2].stock < pq[1].stock
          \/ \E u \in Users, price \in Prices \cup {Absent},
                stock \in StockInputs :
                /\ user[u] = "ADMIN"
                /\ ProductUpdate(u, pq[1].id, price, stock)
                /\ pq[2].stock = stock]_vars

\* an order has been placed, and the administrator's last update left the
\* product with more stock than a creation and an order can leave
C12_Witness ==
    /\ order # {}
    /\ res = Response("productUpdate", "u2", 200)
    /\ \E p \in product : p.stock = MaxStock

\* ---------------------------------------------------------------- C13
\* the step is a request of user u that targets a row which does not exist
TargetsMissingRow(u) ==
    \/ \E productId \in ProductIds :
          /\ FindProduct(productId) = {}
          /\ \/ ProductGet(productId)
             \/ \E r \in Slots, quantity \in 1..MaxQty :
                   CartAddProduct(r, u, productId, quantity)
             \/ \E r \in Slots : WishAddProduct(r, u, productId)
             \/ /\ user[u] = "ADMIN"
                /\ \E price \in Prices \cup {Absent},
                      stock \in StockInputs \cup {Absent} :
                      ProductUpdate(u, productId, price, stock)
    \/ \E id \in CategoryIds :
          (~\E c \in category : c.id = id) /\ CategoryGet(id)
    \/ \E id \in 1..MaxOrders :
          FindOrder(u, id) = {} /\ OrderGet(u, id)
    \/ \E id \in CartIdInputs :
          /\ ~\E c \in cartItem : c.id = id /\ c.userId = u
          /\ \/ \E quantity \in 1..MaxQty : CartUpdate(u, id, quantity)
             \/ CartRemove(u, id)
    \/ \E productId \in ProductIds :
          FindWishlistItem(u, productId) = {} /\ WishRemove(u, productId)

\* C13: every request that targets a row which does not exist responds 404
\* and changes nothing: GET of a missing product, order or category, adding
\* a missing product to the cart or the wishlist, PUT and DELETE
\* /api/cart/:id of a missing cart item, DELETE /api/wishlist/:productId of a
\* product not in the wishlist, PUT /api/products/:id of a missing product.
C13_MissingRowIs404 ==
    [][\A u \in Users :
          TargetsMissingRow(u) => (res'.status = 404 /\ UNCHANGED tables)]_vars

\* ---------------------------------------------------------------- C14
\* C14: the role check comes before validation: POST /api/products by a user
\* who is neither ADMIN nor SELLER, and POST /api/categories by a user who is
\* not ADMIN, respond 403 and create no row, whether the body is valid or
\* not.
C14_RoleCheckFirst ==
    [][\A u \in Users :
          /\ \A price \in Prices, stock \in StockInputs,
                sellerId \in SellerIdInputs :
                (/\ ProductCreate(u, price, stock, sellerId)
                 /\ user[u] \notin {"ADMIN", "SELLER"})
                    => /\ res' = Refusal("productCreate", u, 403,
                                         "Access denied. Admin or Seller only.")
                       /\ product' = product
          /\ \A name \in NameInputs, slug \in NameInputs :
                (CategoryCreate(u, name, slug) /\ user[u] # "ADMIN")
                    => /\ res' = Refusal("categoryCreate", u, 403,
                                         "Access denied. Admin only.")
                       /\ category' = category]_vars

\* u1, whose every body fails validation, has been refused as a plain user
C14_Witness ==
    /\ user["u1"] = "USER"
    /\ res = Refusal("productCreate", "u1", 403,
                     "Access denied. Admin or Seller only.")

\* ---------------------------------------------------------------- C15
\* C15: under any interleaving with the same user's add-to-cart requests,
\* every cart row the commit of an order placement deletes corresponds to an
\* order item of the created order with the same product and the quantity the
\* row held when it was deleted.
C15_DeletedLinesOrdered ==
    [][\A r \in Slots :
          Commits(r) =>
              \A c \in cartItem \ cartItem' :
                  \E o \in order' \ order, i \in orderItem' \ orderItem :
                      /\ i.orderId = o.id
                      /\ i.productId = c.productId
                      /\ i.quantity = c.quantity]_vars

\* ---------------------------------------------------------------- C16
\* C16: no add-to-cart is lost: every POST /api/cart that responds 201 leaves
\* the line of its product holding its quantity more than the line held
\* before its write, so that two requests with quantities q1 and q2 that
\* interleave raise the line by q1 + q2.
C16_NoAddLost ==
    [][\A r \in Slots :
          (/\ req[r].kind = "cartAdd" /\ Finishes(r)
           /\ res' = Response("cartAdd", req[r].user, 201))
              => SumQuantity({c \in cartItem' :
                                 /\ c.userId = req[r].user
                                 /\ c.productId = req[r].productId})
                   = SumQuantity(FindCartItem(req[r].user, req[r].productId))
                       + req[r].quantity]_vars

\* ---------------------------------------------------------------- C17
\* C17: when requests do not interleave, POST /api/cart admits only what the
\* stock covers: a request whose quantity, together with the quantity the
\* cart already holds for the product, exceeds the product's stock responds
\* 400 and changes nothing, and after a request that responds 201 the line of
\* the product holds at most the product's stock.
C17_AddWithinStock ==
    [][/\ \A r \in Slots, u \in Users, productId \in ProductIds,
             quantity \in 1..MaxQty :
             (/\ CartAddProduct(r, u, productId, quantity)
              /\ FindProduct(productId) # {}
              /\ SumQuantity(FindCartItem(u, productId)) + quantity
                    > StockOf(productId))
                 => /\ res' = Refusal("cartAdd", u, 400, "Insufficient stock")
                    /\ UNCHANGED <<tables, req>>
       /\ \A r \in Slots :
             (/\ req[r].kind = "cartAdd" /\ Finishes(r)
              /\ res' = Response("cartAdd", req[r].user, 201))
                 => \A c \in cartItem' :
                        (c.userId = req[r].user
                            /\ c.productId = req[r].productId)
                            => c.quantity <= StockOf(c.productId)]_vars

\* ---------------------------------------------------------------- C18
\* the rows of a table that belong to other users than u
OfOthers(rows, u) == {x \in rows : x.userId # u}

\* C18: a request of one user never reads or changes a row of another user:
\* PUT and DELETE /api/cart/:id on another user's cart item change no row,
\* DELETE /api/wishlist/:productId removes no row but the caller's row for
\* the product, GET /api/orders/:id of another user's order responds 404, and
\* the commit of an order placement deletes no cart item but the caller's.
C18_CrossUserIsolation ==
    [][\A u \in Users :
          /\ \A id \in CartIdInputs :
                (/\ \E c \in cartItem : c.id = id /\ c.userId # u
                 /\ \/ CartRemove(u, id)
                    \/ \E quantity \in QuantityInputs :
                          CartUpdate(u, id, quantity))
                    => UNCHANGED tables
          /\ \A productId \in ProductIds :
                WishRemove(u, productId)
                    => /\ wishlistItem \ wishlistItem'
                             \subseteq FindWishlistItem(u, productId)
                       /\ wishlistItem' \subseteq wishlistItem
          /\ \A id \in 1..MaxOrders :
                (OrderGet(u, id) /\ \E o \in order : o.id = id /\ o.userId # u)
                    => res' = Refusal("orderGet", u, 404, "Order not found")
          /\ \A r \in Slots :
                (Commits(r) /\ req[r].user = u)
                    => OfOthers(cartItem', u) = OfOthers(cartItem, u)]_vars

\* every order there can be belongs to the other user, and the caller's GET
\* of an order has been answered 404
C18_Witness ==
    \E u \in Users :
        /\ Cardinality(order) = MaxOrders
        /\ \A o \in order : o.userId # u
        /\ res = Refusal("orderGet", u, 404, "Order not found")

\* ---------------------------------------------------------------- C19
\* C19: roles change through POST /api/users/become-seller alone: a caller
\* who is SELLER gets 400 and keeps the role, a caller of any other role,
\* USER or ADMIN, becomes SELLER; a SELLER stays SELLER in every later state
\* and no step makes a user USER or ADMIN.
C19_RolesOnlyBecomeSeller ==
    [][\A u \in Users :
          /\ user'[u] # user[u] => (BecomeSeller(u) /\ user'[u] = "SELLER")
          /\ user[u] = "SELLER" => user'[u] = "SELLER"
          /\ BecomeSeller(u) =>
                IF user[u] = "SELLER"
                THEN /\ res' = Refusal("becomeSeller", u, 400,
                                       "User is already a seller")
                     /\ UNCHANGED tables
                ELSE /\ user' = [user EXCEPT ![u] = "SELLER"]
                     /\ res' = Response("becomeSeller", u, 200)]_vars

\* the administrator has become a seller, and has asked once more
C19_Witness ==
    /\ user["u2"] = "SELLER"
    /\ res = Refusal("becomeSeller", "u2", 400, "User is already a seller")
====
